---- MODULE Spec2Model ----
(***************************************************************************)
(* The guest-card backend: an Express server with four handlers over a     *)
(* MongoDB collection (SampleModel, "Card") and a Firebase storage bucket. *)
(* The repository holds three revisions of the server file; `variant`      *)
(* says which one is running:                                              *)
(*   "part_000"  src/unnamed/part_000  (id validation in get-image)        *)
(*   "part_001"  src/unnamed/part_001  (get-image without id validation)   *)
(*   "index"     src/index.js          (no presence check, no retry,       *)
(*                                      no get-image route)                *)
(* Every await of a handler is one action: the effect of the awaited call  *)
(* on the store or the bucket together with the synchronous continuation   *)
(* that runs up to the next await or to the response.                      *)
(***************************************************************************)
EXTENDS Integers, Sequences, FiniteSets, TLC

VARIABLES variant, conn, timers, records, objects, nextId, clock,
          started, req

vars == <<variant, conn, timers, records, objects, nextId, clock,
          started, req>>

\* ------------------------------------------------------------------ bounds
MaxRequests == 2      \* requests started in one run
MaxClock == 1         \* the millisecond clock runs 0..MaxClock
MaxNameLen == 3       \* longest name given to the script classifier

Slots == {1, 2}       \* requests that can be in flight together
Variants == {"part_000", "part_001", "index"}

\* ------------------------------------------------------- program constants
RetryDelayMs == 5000
FontSizePx == 26
TwoNamesOffset == 180
OneNameOffset == -35
XOffset == 50
ExpiryYears == 1

\* --------------------------------------------------------- script classifier
\* Characters are UTF-16 code units, as the regex (no u flag) sees them.
AsciiLetters == (97..122) \cup (65..90)

\* \s of an ECMAScript regex
WhiteSpace == {9, 10, 11, 12, 13, 32, 160, 5760, 8232, 8233, 8239, 8287,
               12288, 65279} \cup (8192..8202)

\* the accented letters listed in the character class
AccentedLetters == (192..197) \cup (199..214) \cup (216..221) \cup (223..229)
                     \cup (231..246) \cup (248..253) \cup {255}

\* the character class without its accented letters
LanguageCharsAsciiOnly == AsciiLetters \cup WhiteSpace

\* [a-zA-Z\s<accented letters>\s]
LanguageChars == AsciiLetters \cup WhiteSpace \cup AccentedLetters

\* /^[...]+$/.test(name)
languageRegex(name) ==
    /\ Len(name) >= 1
    /\ \A i \in 1..Len(name) : name[i] \in LanguageChars

\* ctx.font = englishText ? '26px EnglishFont' : '26px ArabicFont'
ctxFont(englishText) ==
    IF englishText THEN [px |-> FontSizePx, family |-> "EnglishFont"]
                   ELSE [px |-> FontSizePx, family |-> "ArabicFont"]

\* The composed image: the template with `name` drawn in the chosen font at
\* ((w/2) - 50, (h/2) - (twoNames ? 180 : -35)); offsets are relative to the
\* centre of the template.
ComposeImage(name, twoNames) ==
    [text |-> name,
     font |-> ctxFont(languageRegex(name)),
     dx   |-> 0 - XOffset,
     dy   |-> 0 - (IF twoNames THEN TwoNamesOffset ELSE OneNameOffset)]

\* `hedayat/${new Date().getTime()}_edited-image.jpg`
FileName(ms) == [prefix |-> "hedayat/", ts |-> ms, suffix |-> "_edited-image.jpg"]

\* file.getSignedUrl({action: 'read', expires: <issuance + 1 year>}): the URL
\* names the object's path; its expiry is kept relative to the issuance.
SignedUrl(file) ==
    [path |-> file, action |-> "read", expiresInYears |-> ExpiryYears]

\* ------------------------------------------------------------ request data
\* Names and numbers are sequences of code units; <<>> is "" (or a missing
\* field: both are falsy and both fail the schema's `required`).
Sara == <<83, 97>>
Arabic == <<1587>>
Five == <<53>>
\* the bodies POSTed to /fill-image
FillInputs ==
    {[name |-> Sara,   number |-> Five, twoNames |-> FALSE],
     [name |-> Arabic, number |-> Five, twoNames |-> TRUE],
     [name |-> <<>>,   number |-> Five, twoNames |-> FALSE],
     [name |-> Sara,   number |-> <<>>, twoNames |-> FALSE]}

\* Characters the classifier is tried on: a, Y-acute, space, 5, the
\* ae-ligature and an Arabic letter.
SampleChars == {97, 221, 32, 53, 230, 1587}
RECURSIVE SeqsUpTo(_, _)
SeqsUpTo(S, n) ==
    IF n = 0 THEN {<<>>}
    ELSE LET shorter == SeqsUpTo(S, n - 1)
         IN  shorter \cup {Append(q, c) : q \in shorter, c \in S}
ClassifierNames == SeqsUpTo(SampleChars, MaxNameLen)

\* Request ids are abstracted to integers: 1.. stand for strings that cast to
\* an ObjectId, 0 for a string that does not.
ParamIds == {0, 1}

\* mongoose.Types.ObjectId.isValid(id)
IsValidObjectId(id) == id >= 1

\* ---------------------------------------------------------------- responses
NoBody == [type |-> "none", status |-> "", message |-> "", cards |-> {}, image |-> {}]

Json(status, message, cards) ==
    [type |-> "json", status |-> status, message |-> message, cards |-> cards, image |-> {}]

Text(message) ==
    [type |-> "text", status |-> "", message |-> message, cards |-> {}, image |-> {}]

Binary(buffer) ==
    [type |-> "binary", status |-> "", message |-> "", cards |-> {}, image |-> {buffer}]

Idle ==
    [kind |-> "none", pc |-> "idle", name |-> <<>>, number |-> <<>>, twoNames |-> FALSE,
     id |-> 0, buffer |-> {}, file |-> {}, imageUrl |-> {}, guest |-> {},
     queried |-> FALSE, uploads |-> 0, created |-> 0,
     err |-> "none", failedAt |-> "none",
     status |-> 0, body |-> NoBody, answers |-> 0]

\* A slot names a request in flight; an arriving request takes the lowest slot
\* whose request has been answered (or that was never used).
Free(s) ==
    /\ started < MaxRequests
    /\ req[s].pc \in {"idle", "done"}
    /\ \A t \in Slots : t < s => req[t].pc \notin {"idle", "done"}

\* res.status(code).json(body) / res.send(body): the request is answered
Respond(r, code, body) ==
    [r EXCEPT !.pc = "done", !.status = code, !.body = body, !.answers = @ + 1]

\* ------------------------------------------------------------------- Init
Init ==
    /\ variant \in Variants
    /\ conn = "connecting"
    /\ timers = <<>>
    /\ records = {}
    /\ objects = {}
    /\ nextId = 1
    /\ clock = 0
    /\ started = 0
    /\ req = [s \in Slots |-> Idle]

\* ------------------------------------------------------ database connection
\* mongoose.connect(...) resolves
ConnectSucceed ==
    /\ conn = "connecting"
    /\ conn' = "connected"
    /\ UNCHANGED <<variant, timers, records, objects, nextId, clock, started, req>>

\* mongoose.connect(...) rejects: connectWithRetry's catch sets the 5 s timer;
\* index.js only logs the error.
ConnectFail ==
    /\ conn = "connecting"
    /\ IF variant = "index"
       THEN conn' = "disconnected" /\ timers' = timers
       ELSE conn' = "retryWait" /\ timers' = Append(timers, RetryDelayMs)
    /\ UNCHANGED <<variant, records, objects, nextId, clock, started, req>>

\* setTimeout(connectWithRetry, 5000) fires: the next attempt starts
RetryTimerFire ==
    /\ timers # <<>>
    /\ timers' = Tail(timers)
    /\ conn' = "connecting"
    /\ UNCHANGED <<variant, records, objects, nextId, clock, started, req>>

\* The millisecond clock read by new Date(). Time that passes while no handler
\* is about to read the clock is folded into the tick before the next read.
Tick ==
    /\ clock < MaxClock
    /\ \E s \in Slots : req[s].pc = "loadImage"
    /\ clock' = clock + 1
    /\ UNCHANGED <<variant, conn, timers, records, objects, nextId, started, req>>

\* ------------------------------------------------------------- bucket, store
The(S) == CHOOSE x \in S : TRUE

\* file.save(buffer): the object at `path` is created or silently replaced
Upload(bucket, path, buffer) ==
    {o \in bucket : o.path # path} \cup {[path |-> path, content |-> buffer]}

Paths(bucket) == {o.path : o \in bucket}
ContentAt(bucket, path) == {o.content : o \in {x \in bucket : x.path = path}}

\* a document built with name and number exchanged
DocSwapped(r) == [id |-> r.id, name |-> r.number, number |-> r.name,
                  imagePath |-> The(r.imageUrl)]

\* new SampleModel({name, number, imagePath: imageUrl}) with its generated _id
Doc(r) == [id |-> r.id, name |-> r.name, number |-> r.number,
           imagePath |-> The(r.imageUrl)]

\* the schema's `required: true` on name, number and imagePath
SchemaValid(r) == r.name # <<>> /\ r.number # <<>> /\ r.imageUrl # {}

ById(id) == {g \in records : g.id = id}

\* ---------------------------------------------------------------- fill-image
\* the catch block of fill-image
FillCatch(r, e, stage) ==
    Respond([r EXCEPT !.err = e, !.failedAt = stage], 500,
            IF variant = "index" THEN Text("Internal Server Error")
            ELSE Json("nok", "Failed to create image", {}))

\* POST /fill-image arrives: the presence check (absent from index.js), then
\* loadImage is awaited
FillStart(s, name, number, twoNames) ==
    /\ Free(s)
    /\ started' = started + 1
    /\ LET r == [Idle EXCEPT !.kind = "fill", !.name = name, !.number = number,
                             !.twoNames = twoNames]
       IN  req' = [req EXCEPT ![s] =
                IF variant # "index" /\ (name = <<>> \/ number = <<>>)
                THEN Respond(r, 400, Json("nok", "Name and number are required", {}))
                ELSE [r EXCEPT !.pc = "loadImage"]]
    /\ UNCHANGED <<variant, conn, timers, records, objects, nextId, clock>>

\* loadImage resolves: the canvas is drawn and encoded, the file name is taken
\* from the clock, file.save is awaited
FillTemplateLoaded(s) ==
    /\ req[s].kind = "fill" /\ req[s].pc = "loadImage"
    /\ req' = [req EXCEPT ![s] = [@ EXCEPT
                  !.buffer = {ComposeImage(req[s].name, req[s].twoNames)},
                  !.file = {FileName(clock)},
                  !.pc = "upload"]]
    /\ UNCHANGED <<variant, conn, timers, records, objects, nextId, clock, started>>

FillTemplateFailed(s) ==
    /\ req[s].kind = "fill" /\ req[s].pc = "loadImage"
    /\ req' = [req EXCEPT ![s] = FillCatch(@, "TemplateLoadError", "loadImage")]
    /\ UNCHANGED <<variant, conn, timers, records, objects, nextId, clock, started>>

\* a failed upload that the handler does not notice
FillUploadFailedIgnored(s) ==
    /\ req[s].kind = "fill" /\ req[s].pc = "upload"
    /\ req' = [req EXCEPT ![s] = [@ EXCEPT !.pc = "signUrl"]]
    /\ UNCHANGED <<variant, conn, timers, records, objects, nextId, clock, started>>

\* file.save resolves: the object is in the bucket, getSignedUrl is awaited
FillUploaded(s) ==
    /\ req[s].kind = "fill" /\ req[s].pc = "upload"
    /\ objects' = Upload(objects, The(req[s].file), The(req[s].buffer))
    /\ req' = [req EXCEPT ![s] = [@ EXCEPT !.uploads = @ + 1, !.pc = "signUrl"]]
    /\ UNCHANGED <<variant, conn, timers, records, nextId, clock, started>>

FillUploadFailed(s) ==
    /\ req[s].kind = "fill" /\ req[s].pc = "upload"
    /\ req' = [req EXCEPT ![s] = FillCatch(@, "UploadError", "upload")]
    /\ UNCHANGED <<variant, conn, timers, records, objects, nextId, clock, started>>

\* getSignedUrl resolves: the document is constructed (its _id generated) and
\* save is awaited
FillUrlSigned(s) ==
    /\ req[s].kind = "fill" /\ req[s].pc = "signUrl"
    /\ req' = [req EXCEPT ![s] = [@ EXCEPT
                  !.imageUrl = {SignedUrl(The(req[s].file))},
                  !.id = nextId,
                  !.queried = TRUE,
                  !.pc = "dbSave"]]
    /\ nextId' = nextId + 1
    /\ UNCHANGED <<variant, conn, timers, records, objects, clock, started>>

FillUrlFailed(s) ==
    /\ req[s].kind = "fill" /\ req[s].pc = "signUrl"
    /\ req' = [req EXCEPT ![s] = FillCatch(@, "SignError", "signUrl")]
    /\ UNCHANGED <<variant, conn, timers, records, objects, nextId, clock, started>>

\* save resolves: the record is in the collection, res.json({card})
FillSaved(s) ==
    /\ req[s].kind = "fill" /\ req[s].pc = "dbSave"
    /\ SchemaValid(req[s])
    /\ conn = "connected"
    /\ records' = records \cup {Doc(req[s])}
    /\ req' = [req EXCEPT ![s] = Respond([@ EXCEPT !.created = @ + 1], 200,
                                          Json("", "", {Doc(req[s])}))]
    /\ UNCHANGED <<variant, conn, timers, objects, nextId, clock, started>>

\* save rejects with a ValidationError, before anything is sent to the store
FillSaveInvalid(s) ==
    /\ req[s].kind = "fill" /\ req[s].pc = "dbSave"
    /\ ~SchemaValid(req[s])
    /\ req' = [req EXCEPT ![s] = FillCatch(@, "ValidationError", "dbSave")]
    /\ UNCHANGED <<variant, conn, timers, records, objects, nextId, clock, started>>

\* save rejects: the store is unreachable or the write fails
FillSaveFailed(s) ==
    /\ req[s].kind = "fill" /\ req[s].pc = "dbSave"
    /\ SchemaValid(req[s])
    /\ req' = [req EXCEPT ![s] = FillCatch(@, "StoreError", "dbSave")]
    /\ UNCHANGED <<variant, conn, timers, records, objects, nextId, clock, started>>

\* --------------------------------------------------------------- guests_list
ListStart(s) ==
    /\ Free(s)
    /\ started' = started + 1
    /\ req' = [req EXCEPT ![s] = [Idle EXCEPT !.kind = "list", !.queried = TRUE,
                                              !.pc = "find"]]
    /\ UNCHANGED <<variant, conn, timers, records, objects, nextId, clock>>

\* find() resolves: res.json(allSamples)
ListResolved(s) ==
    /\ req[s].kind = "list" /\ req[s].pc = "find"
    /\ conn = "connected"
    /\ req' = [req EXCEPT ![s] = Respond(@, 200, Json("", "", records))]
    /\ UNCHANGED <<variant, conn, timers, records, objects, nextId, clock, started>>

ListFailed(s) ==
    /\ req[s].kind = "list" /\ req[s].pc = "find"
    /\ req' = [req EXCEPT ![s] = Respond([@ EXCEPT !.err = "StoreError", !.failedAt = "find"],
                  500, Json("nok", IF variant = "index" THEN "StoreError"
                                   ELSE "Failed to fetch guests list", {}))]
    /\ UNCHANGED <<variant, conn, timers, records, objects, nextId, clock, started>>

\* ------------------------------------------------------ DELETE /guests_list/:id
\* the catch block of the delete handler
DeleteCatch(r, e) ==
    Respond([r EXCEPT !.err = e, !.failedAt = "findByIdAndDelete"], 500,
            Json("nok", IF variant = "index" THEN e ELSE "Failed to delete guest", {}))

DeleteStart(s, id) ==
    /\ Free(s)
    /\ started' = started + 1
    /\ req' = [req EXCEPT ![s] = [Idle EXCEPT !.kind = "delete", !.id = id,
                                              !.queried = TRUE,
                                              !.pc = "findByIdAndDelete"]]
    /\ UNCHANGED <<variant, conn, timers, records, objects, nextId, clock>>

\* a delete that also removes the image object of the deleted record
DeleteFoundWithImage(s) ==
    /\ req[s].kind = "delete" /\ req[s].pc = "findByIdAndDelete"
    /\ IsValidObjectId(req[s].id)
    /\ conn = "connected"
    /\ ById(req[s].id) # {}
    /\ records' = records \ ById(req[s].id)
    /\ objects' = {o \in objects : \A g \in ById(req[s].id) : o.path # g.imagePath.path}
    /\ req' = [req EXCEPT ![s] = Respond([@ EXCEPT !.guest = ById(req[s].id)], 200,
                  Json("success", "Record deleted successfully", ById(req[s].id)))]
    /\ UNCHANGED <<variant, conn, timers, nextId, clock, started>>

\* findByIdAndDelete resolves with the deleted document
DeleteFound(s) ==
    /\ req[s].kind = "delete" /\ req[s].pc = "findByIdAndDelete"
    /\ IsValidObjectId(req[s].id)
    /\ conn = "connected"
    /\ ById(req[s].id) # {}
    /\ records' = records \ ById(req[s].id)
    /\ req' = [req EXCEPT ![s] = Respond([@ EXCEPT !.guest = ById(req[s].id)], 200,
                  Json("success", "Record deleted successfully", ById(req[s].id)))]
    /\ UNCHANGED <<variant, conn, timers, objects, nextId, clock, started>>

\* findByIdAndDelete resolves with null
DeleteNotFound(s) ==
    /\ req[s].kind = "delete" /\ req[s].pc = "findByIdAndDelete"
    /\ IsValidObjectId(req[s].id)
    /\ conn = "connected"
    /\ ById(req[s].id) = {}
    /\ req' = [req EXCEPT ![s] = Respond(@, 404, Json("not found", "Record not found", {}))]
    /\ UNCHANGED <<variant, conn, timers, records, objects, nextId, clock, started>>

\* an id that does not cast to ObjectId: the query rejects with a CastError
DeleteCastError(s) ==
    /\ req[s].kind = "delete" /\ req[s].pc = "findByIdAndDelete"
    /\ ~IsValidObjectId(req[s].id)
    /\ req' = [req EXCEPT ![s] = DeleteCatch(@, "CastError")]
    /\ UNCHANGED <<variant, conn, timers, records, objects, nextId, clock, started>>

DeleteStoreError(s) ==
    /\ req[s].kind = "delete" /\ req[s].pc = "findByIdAndDelete"
    /\ IsValidObjectId(req[s].id)
    /\ req' = [req EXCEPT ![s] = DeleteCatch(@, "StoreError")]
    /\ UNCHANGED <<variant, conn, timers, records, objects, nextId, clock, started>>

\* ---------------------------------------------------------- GET /get-image/:id
\* the catch block of get-image
GetImageCatch(r, e, stage) ==
    Respond([r EXCEPT !.err = e, !.failedAt = stage], 500,
            Json("nok", IF variant = "part_000" THEN "Failed to fetch image: " \o e
                        ELSE "Failed to fetch image", {}))

\* the route exists in part_000 and part_001; only part_000 validates the id
GetImageStart(s, id) ==
    /\ variant # "index"
    /\ Free(s)
    /\ started' = started + 1
    /\ LET r == [Idle EXCEPT !.kind = "getimage", !.id = id]
       IN  req' = [req EXCEPT ![s] =
                IF variant = "part_000" /\ ~IsValidObjectId(id)
                THEN Respond(r, 400, Json("nok", "Invalid guest ID", {}))
                ELSE [r EXCEPT !.queried = TRUE, !.pc = "findById"]]
    /\ UNCHANGED <<variant, conn, timers, records, objects, nextId, clock>>

GetImageCastError(s) ==
    /\ req[s].kind = "getimage" /\ req[s].pc = "findById"
    /\ ~IsValidObjectId(req[s].id)
    /\ req' = [req EXCEPT ![s] = GetImageCatch(@, "CastError", "findById")]
    /\ UNCHANGED <<variant, conn, timers, records, objects, nextId, clock, started>>

GetImageStoreError(s) ==
    /\ req[s].kind = "getimage" /\ req[s].pc = "findById"
    /\ IsValidObjectId(req[s].id)
    /\ req' = [req EXCEPT ![s] = GetImageCatch(@, "StoreError", "findById")]
    /\ UNCHANGED <<variant, conn, timers, records, objects, nextId, clock, started>>

\* findById resolves with null
GetImageNotFound(s) ==
    /\ req[s].kind = "getimage" /\ req[s].pc = "findById"
    /\ IsValidObjectId(req[s].id)
    /\ conn = "connected"
    /\ ById(req[s].id) = {}
    /\ req' = [req EXCEPT ![s] = Respond(@, 404,
                  Json("not found", "Guest or image not found", {}))]
    /\ UNCHANGED <<variant, conn, timers, records, objects, nextId, clock, started>>

\* findById resolves with the guest: axios.get is awaited; part_001 never
\* requires axios, so the call throws a ReferenceError into the catch block
GetImageFound(s) ==
    /\ req[s].kind = "getimage" /\ req[s].pc = "findById"
    /\ IsValidObjectId(req[s].id)
    /\ conn = "connected"
    /\ ById(req[s].id) # {}
    /\ LET r == [req[s] EXCEPT !.guest = ById(req[s].id)]
       IN  req' = [req EXCEPT ![s] =
                IF variant = "part_001"
                THEN GetImageCatch(r, "ReferenceError", "axiosGet")
                ELSE [r EXCEPT !.pc = "axiosGet"]]
    /\ UNCHANGED <<variant, conn, timers, records, objects, nextId, clock, started>>

\* axios.get resolves with status 200: the bytes of the object are sent
GetImageFetched(s) ==
    /\ req[s].kind = "getimage" /\ req[s].pc = "axiosGet"
    /\ ContentAt(objects, The(req[s].guest).imagePath.path) # {}
    /\ req' = [req EXCEPT ![s] = Respond(@, 200,
                  Binary(The(ContentAt(objects, The(req[s].guest).imagePath.path))))]
    /\ UNCHANGED <<variant, conn, timers, records, objects, nextId, clock, started>>

\* axios.get rejects, or resolves with a status other than 200
GetImageFetchFailed(s) ==
    /\ req[s].kind = "getimage" /\ req[s].pc = "axiosGet"
    /\ req' = [req EXCEPT ![s] = GetImageCatch(@, "FetchError", "axiosGet")]
    /\ UNCHANGED <<variant, conn, timers, records, objects, nextId, clock, started>>

\* ------------------------------------------------------------------- Next
Next ==
    \/ ConnectSucceed
    \/ ConnectFail
    \/ RetryTimerFire
    \/ Tick
    \/ \E s \in Slots, b \in FillInputs : FillStart(s, b.name, b.number, b.twoNames)
    \/ \E s \in Slots : FillTemplateLoaded(s)
    \/ \E s \in Slots : FillTemplateFailed(s)
    \/ \E s \in Slots : FillUploaded(s)
    \/ \E s \in Slots : FillUploadFailed(s)
    \/ \E s \in Slots : FillUrlSigned(s)
    \/ \E s \in Slots : FillUrlFailed(s)
    \/ \E s \in Slots : FillSaved(s)
    \/ \E s \in Slots : FillSaveInvalid(s)
    \/ \E s \in Slots : FillSaveFailed(s)
    \/ \E s \in Slots : ListStart(s)
    \/ \E s \in Slots : ListResolved(s)
    \/ \E s \in Slots : ListFailed(s)
    \/ \E s \in Slots, id \in ParamIds : DeleteStart(s, id)
    \/ \E s \in Slots : DeleteFound(s)
    \/ \E s \in Slots : DeleteNotFound(s)
    \/ \E s \in Slots : DeleteCastError(s)
    \/ \E s \in Slots : DeleteStoreError(s)
    \/ \E s \in Slots, id \in ParamIds : GetImageStart(s, id)
    \/ \E s \in Slots : GetImageCastError(s)
    \/ \E s \in Slots : GetImageStoreError(s)
    \/ \E s \in Slots : GetImageNotFound(s)
    \/ \E s \in Slots : GetImageFound(s)
    \/ \E s \in Slots : GetImageFetched(s)
    \/ \E s \in Slots : GetImageFetchFailed(s)

Spec == Init /\ [][Next]_vars

\* The script classifier on its own: fill-image requests whose names range
\* over ClassifierNames, followed up to the composition of the image.
ClassifierNext ==
    \/ \E name \in ClassifierNames : FillStart(1, name, Five, FALSE)
    \/ FillTemplateLoaded(1)

ClassifierSpec == Init /\ [][ClassifierNext]_vars

\* The server started over a collection and a bucket that earlier runs have
\* filled: two cards, each with its image object, uploaded before the clock's
\* origin.
StoredCard(id, name, ms) ==
    [id |-> id, name |-> name, number |-> Five, imagePath |-> SignedUrl(FileName(ms))]

FrameInit ==
    /\ variant \in Variants
    /\ conn = "connecting"
    /\ timers = <<>>
    /\ records = {StoredCard(1, Sara, -2), StoredCard(2, Arabic, -1)}
    /\ objects = {[path |-> FileName(-2), content |-> ComposeImage(Sara, FALSE)],
                  [path |-> FileName(-1), content |-> ComposeImage(Arabic, TRUE)]}
    /\ nextId = 3
    /\ clock = 0
    /\ started = 0
    /\ req = [s \in Slots |-> Idle]

FrameSpec == FrameInit /\ [][Next]_vars

\* ------------------------------------------------------------------ claims
FillDone(s, code) ==
    req[s].kind = "fill" /\ req[s].pc = "done" /\ req[s].status = code

\* C1: every record of the collection has name, number and imagePath
\* populated, and its imagePath is the signed URL of an object that is in the
\* bucket; a request reaches URL issuance only with its object uploaded, and
\* reaches the save only with the signed URL of that uploaded object.
C1_RecordsReferUploadedImages ==
    /\ \A g \in records :
          /\ g.name # <<>> /\ g.number # <<>>
          /\ g.imagePath = SignedUrl(g.imagePath.path)
          /\ g.imagePath.path \in Paths(objects)
    /\ \A s \in Slots :
          /\ (req[s].kind = "fill" /\ req[s].pc \in {"signUrl", "dbSave"})
                => (req[s].uploads = 1 /\ The(req[s].file) \in Paths(objects))
          /\ (req[s].kind = "fill" /\ req[s].pc = "dbSave")
                => req[s].imageUrl = {SignedUrl(The(req[s].file))}
          /\ (req[s].kind = "fill" /\ req[s].err \in {"UploadError", "SignError"})
                => req[s].created = 0

C1_Witness ==
    \E g \in records : g.name = Arabic /\ g.imagePath.path \in Paths(objects)

\* C2: a fill-image request whose name or number is missing or empty is
\* answered 400 {status: "nok", message: "Name and number are required"},
\* uploads no object and creates no record.
C2_MissingFieldsAnswered400 ==
    \A s \in Slots :
        (req[s].kind = "fill" /\ (req[s].name = <<>> \/ req[s].number = <<>>))
            => /\ req[s].uploads = 0 /\ req[s].created = 0
               /\ req[s].pc = "done"
                    => /\ req[s].status = 400
                       /\ req[s].body = Json("nok", "Name and number are required", {})

\* C3: a get-image request with a malformed id is answered 400
\* {status: "nok", message: "Invalid guest ID"} without querying the store,
\* never 404 or 500.
C3_MalformedIdAnswered400 ==
    \A s \in Slots :
        (req[s].kind = "getimage" /\ ~IsValidObjectId(req[s].id))
            => /\ ~req[s].queried
               /\ req[s].pc = "done"
                    => /\ req[s].status = 400
                       /\ req[s].body = Json("nok", "Invalid guest ID", {})

\* C4: a DELETE whose id is not in the collection (the store itself not
\* failing) is answered 404 {status: "not found", message: "Record not
\* found"} and leaves the collection unchanged.
C4_AbsentIdAnswered404 ==
    [][\A s \in Slots :
          (/\ req[s].kind = "delete" /\ req[s].pc = "findByIdAndDelete"
           /\ req'[s].pc = "done"
           /\ ById(req[s].id) = {}
           /\ req'[s].err # "StoreError")
              => /\ req'[s].status = 404
                 /\ req'[s].body = Json("not found", "Record not found", {})
                 /\ records' = records]_vars

\* C5: a fill-image request answered 200 carries {card} with the submitted
\* name and number and the signed URL of the object this request uploaded;
\* the request uploaded exactly one object and added exactly one record.
C5_FillSuccess ==
    \A s \in Slots :
        FillDone(s, 200)
            => /\ req[s].name # <<>> /\ req[s].number # <<>>
               /\ req[s].body.type = "json"
               /\ \E card \in req[s].body.cards :
                     /\ req[s].body.cards = {card}
                     /\ card.name = req[s].name
                     /\ card.number = req[s].number
                     /\ card.imagePath = SignedUrl(The(req[s].file))
                     /\ card.id = req[s].id
               /\ The(req[s].file) \in Paths(objects)
               /\ req[s].uploads = 1
               /\ req[s].created = 1

C5_Witness ==
    \E s \in Slots : FillDone(s, 200) /\ req[s].name = Sara /\ records # {}

\* C6: two fill-image requests in flight together and both answered 200 have
\* records with different ids, and the object each record's imagePath names
\* holds that request's own composed image.
C6_ConcurrentFillsIndependent ==
    \A s, t \in Slots :
        (s # t /\ FillDone(s, 200) /\ FillDone(t, 200))
            => /\ req[s].id # req[t].id
               /\ ContentAt(objects, The(req[s].imageUrl).path) = req[s].buffer
               /\ ContentAt(objects, The(req[t].imageUrl).path) = req[t].buffer

\* C7: every request is answered exactly once, with a status in
\* {200, 400, 404, 500}; a request that failed is answered 500 with a JSON
\* body.
C7_FailuresBecomeJsonResponses ==
    \A s \in Slots :
        /\ req[s].pc \notin {"idle", "done"} => req[s].answers = 0
        /\ req[s].pc = "done"
              => /\ req[s].answers = 1
                 /\ req[s].status \in {200, 400, 404, 500}
                 /\ req[s].err # "none"
                      => (req[s].status = 500 /\ req[s].body.type = "json")

\* C8: a fill-image request whose save failed after upload and URL issuance is
\* answered 500 and created no record; its object stays in the bucket and no
\* record refers to it.
C8_FailedSaveLeavesOrphan ==
    \A s \in Slots :
        (req[s].kind = "fill" /\ req[s].pc = "done" /\ req[s].failedAt = "dbSave")
            => /\ req[s].status = 500
               /\ req[s].created = 0
               /\ The(req[s].file) \in Paths(objects)
               /\ \A g \in records : g.imagePath.path # The(req[s].file)

\* C9: every failed connection attempt schedules exactly one further attempt,
\* 5 seconds later; nothing is scheduled once connected, and the connected
\* state is kept.
C9_FailedConnectSchedulesRetry ==
    [][/\ (conn = "connecting" /\ conn' \notin {"connecting", "connected"})
            => (conn' = "retryWait" /\ timers' = Append(timers, 5000))
       /\ conn' = "connected" => timers' = <<>>
       /\ conn = "connected" => conn' = "connected"]_vars

\* C10: a non-empty name made only of letters of the Latin set and spaces is
\* classified true and drawn in EnglishFont; a name with a digit, a
\* punctuation mark, a letter outside the set or an Arabic letter is classified
\* false and drawn in ArabicFont.
C10_ClassifierDecidesFont ==
    \A s \in Slots :
        req[s].buffer # {}
            => LET img == The(req[s].buffer)
                   n == req[s].name
               IN  /\ img.text = n
                   /\ (Len(n) >= 1 /\ \A i \in 1..Len(n) : n[i] \in {97, 221, 32})
                         => img.font = [px |-> 26, family |-> "EnglishFont"]
                   /\ (\E i \in 1..Len(n) : n[i] \in {53, 230, 1587})
                         => img.font = [px |-> 26, family |-> "ArabicFont"]

C10_Witness ==
    \E s \in Slots :
        /\ req[s].buffer # {}
        /\ req[s].name = <<97, 32, 221>>
        /\ The(req[s].buffer).font.family = "EnglishFont"

\* C11: records are never changed in place and only a successful DELETE
\* removes one: it removes exactly the record with its id and leaves every
\* other record and every stored object, the deleted record's image included,
\* as they were; the list, get-image and delete handlers never touch the
\* bucket, and list and get-image never touch the collection.
C11_OnlyDeleteRemovesRecords ==
    [][/\ \A g \in records' : (\E h \in records : h.id = g.id) => g \in records
       /\ \A g \in records \ records' :
             \E s \in Slots :
                /\ req[s].kind = "delete" /\ req[s].pc = "findByIdAndDelete"
                /\ req[s].id = g.id
                /\ req'[s].pc = "done" /\ req'[s].status = 200
                /\ req'[s].body.cards = {g}
                /\ records' = records \ {g}
                /\ objects' = objects
       /\ \A s \in Slots :
             (req'[s] # req[s] /\ req'[s].kind \in {"list", "getimage", "delete"})
                => /\ objects' = objects
                   /\ req'[s].kind # "delete" => records' = records]_vars

C11_Witness ==
    \E s \in Slots :
        /\ req[s].kind = "delete" /\ req[s].pc = "done" /\ req[s].status = 200
        /\ req[s].guest = {StoredCard(1, Sara, -2)}
        /\ records = {StoredCard(2, Arabic, -1)}
        /\ FileName(-2) \in Paths(objects)

====
